---------------------------- MODULE Spec2Model ----------------------------
(***************************************************************************)
(* The Enum base class of src/src/match.ts: the @variant factory           *)
(* decorator, is, unwrap, unwrapTuple, toString, match and the type        *)
(* identity hook, together with a caller that holds JavaScript array       *)
(* references and writes through them.                                     *)
(*                                                                         *)
(* A JavaScript string is a sequence of string fragments, so that          *)
(* concatenation is \o and a rendering can be inspected fragment by        *)
(* fragment.  An array is an entry of the heap, named by a reference: two  *)
(* holders of the same reference see each other's writes.                  *)
(***************************************************************************)
EXTENDS Naturals, Sequences, FiniteSets

\* Longest payload (and longest caller array) explored.
MaxLen == 2

VARIABLES
    heap,          \* reference -> contents of the array object
    thisObj,       \* the Enum instance under test (NoInstance before the factory ran)
    callerRefs,    \* array references the calling code holds
    built,         \* history: the factory call that built thisObj
    aliasWritten,  \* history: the caller wrote through a reference to this.variant.args
    last           \* the last call: operation, input, outcome, value, handler calls

vars == <<heap, thisObj, callerRefs, built, aliasWritten, last>>

---------------------------------------------------------------------------
(* Values, strings and arrays of the host language *)

Num404 == [type |-> "number", val |-> "404"]
Undef  == [type |-> "undefined", val |-> ""]

\* Payload values the caller passes: a number and undefined.
Values == {Num404, Undef}

\* Arrays of at most n values.
ArraysUpTo(n) == UNION {[1..k -> Values] : k \in 0..n}

\* A value's own string conversion, String(v).
ToString(v) ==
    CASE v.type = "undefined" -> <<"undefined">>
      [] v.type = "null"      -> <<"null">>
      [] OTHER                -> <<v.val>>

\* Array.prototype.join converts each element with ToString, except that
\* undefined and null elements become the empty string.
JoinElement(v) ==
    IF v.type \in {"undefined", "null"} THEN <<>> ELSE ToString(v)

RECURSIVE ArrayJoin(_, _)
ArrayJoin(arr, sep) ==
    IF arr = <<>> THEN <<>>
    ELSE IF Len(arr) = 1 THEN JoinElement(arr[1])
    ELSE JoinElement(arr[1]) \o sep \o ArrayJoin(Tail(arr), sep)

---------------------------------------------------------------------------
(* Classes: Status extends Enum and declares the @variant factories;       *)
(* SubStatus extends Status and inherits them as static methods.           *)

ConcreteClasses == {"Status", "SubStatus"}

\* The @variant static methods each class declares itself.
OwnVariants(c) ==
    CASE c = "Status"    -> {"Failed", "toString"}
      [] c = "SubStatus" -> {}
      [] OTHER           -> {}

Super(c) == IF c = "SubStatus" THEN "Status" ELSE "Enum"

\* Static member lookup C[key] walks the constructor chain to the class
\* whose decorator produced the method; that class is the decorator's target.
RECURSIVE Declarer(_, _)
Declarer(c, key) ==
    IF c = "Enum" THEN "Enum"
    ELSE IF key \in OwnVariants(c) THEN c
    ELSE Declarer(Super(c), key)

VariantNames == UNION {OwnVariants(c) : c \in ConcreteClasses}

\* Properties every object literal inherits from Object.prototype.
ObjectPrototypeKeys == {"toString"}

\* The two array objects: the caller's own array, whose elements it spreads
\* into the factory call, and the rest-parameter array the call allocates.
Refs == {"callerArray", "restArgs"}

NoInstance == [constructor |-> "none", variant |-> [name |-> "", args |-> "undefined"]]

\* typeId(constructor) of ./type_id: a stable handle, one per constructor.
typeId(constructor) == [typeOf |-> constructor]

---------------------------------------------------------------------------
(* Outcomes of a call *)

Return(v) == [outcome |-> "return", value |-> v, calls |-> <<>>]
Throw(message) == [outcome |-> "throw", value |-> message, calls |-> <<>>]

UnwrapMessage == <<"Cannot unwrap a variant without arguments">>
MatchMessage(variantName) ==
    <<"Non-exhaustive pattern matching: missing handler for variant '", variantName, "'">>

\* !this.variant.args || this.variant.args.length === 0
NoArgs(self, h) ==
    \/ self.variant.args = "undefined"
    \/ Len(h[self.variant.args]) = 0

---------------------------------------------------------------------------
(* The decorator and the methods, as functions of the instance and heap *)

\* target.prototype.constructor: a class's prototype names the class itself.
PrototypeConstructor(target) == target

\* descriptor.value of @variant: new constructor({ name: propertyKey, args }).
variant(target, propertyKey, args) ==
    [constructor |-> PrototypeConstructor(target),
     variant     |-> [name |-> propertyKey, args |-> args]]

isNegated(self, variantName) == self.variant.name # variantName

is(self, variantName) == self.variant.name = variantName

unwrapOffByOne(self, h) ==
    IF self.variant.args = "undefined" \/ Len(h[self.variant.args]) <= 1
    THEN Throw(UnwrapMessage)
    ELSE Return(h[self.variant.args][1])

unwrapLast(self, h) ==
    IF NoArgs(self, h) THEN Throw(UnwrapMessage)
    ELSE Return(h[self.variant.args][Len(h[self.variant.args])])

unwrap(self, h) ==
    IF NoArgs(self, h) THEN Throw(UnwrapMessage)
    ELSE Return(h[self.variant.args][1])

\* Returns this.variant.args itself: the reference, not a copy.
unwrapTuple(self, h) ==
    IF NoArgs(self, h) THEN Throw(UnwrapMessage)
    ELSE Return(self.variant.args)

toStringCommaOnly(self, h) ==
    IF NoArgs(self, h) THEN <<self.variant.name>>
    ELSE <<self.variant.name, "(">> \o ArrayJoin(h[self.variant.args], <<",">>) \o <<")">>

toString(self, h) ==
    IF NoArgs(self, h) THEN <<self.variant.name>>
    ELSE <<self.variant.name, "(">> \o ArrayJoin(h[self.variant.args], <<", ">>) \o <<")">>

---------------------------------------------------------------------------
(* match *)

NoHandler == [owner |-> "undefined", key |-> ""]
NotGiven  == [id |-> "undefined", own |-> {}]

\* An object literal mapping each of its own keys to a handler function.
Mapping(id, keys) == [id |-> id, own |-> keys]

\* obj[key]: the own property, else the one inherited from Object.prototype.
Lookup(obj, key) ==
    IF key \in obj.own THEN [owner |-> obj.id, key |-> key]
    ELSE IF key \in ObjectPrototypeKeys THEN [owner |-> "Object.prototype", key |-> key]
    ELSE NoHandler

\* obj?.[key]
OptionalLookup(obj, key) ==
    IF obj = NotGiven THEN NoHandler ELSE Lookup(obj, key)

\* The result of calling a handler: whatever that handler makes of its arguments.
Apply(handler, args) == [returnedBy |-> handler, appliedTo |-> args]

Invoke(handler, args) ==
    [outcome |-> "return",
     value   |-> Apply(handler, args),
     calls   |-> <<[handler |-> handler, args |-> args]>>]

\* patterns[variantName] || defaultPatterns?.[variantName]
Resolve(variantName, patterns, defaultPatterns) ==
    IF Lookup(patterns, variantName) # NoHandler
    THEN Lookup(patterns, variantName)
    ELSE OptionalLookup(defaultPatterns, variantName)

matchFallthrough(self, h, patterns, defaultPatterns) ==
    LET handler == Resolve(self.variant.name, patterns, defaultPatterns)
        args    == IF NoArgs(self, h) THEN <<>> ELSE h[self.variant.args]
        other   == OptionalLookup(defaultPatterns, self.variant.name)
    IN  IF handler = NoHandler THEN Throw(MatchMessage(self.variant.name))
        ELSE IF other # NoHandler /\ other # handler
             THEN [outcome |-> "return",
                   value   |-> Apply(other, args),
                   calls   |-> <<[handler |-> handler, args |-> args],
                                 [handler |-> other, args |-> args]>>]
             ELSE Invoke(handler, args)

matchFirstArgOnly(self, h, patterns, defaultPatterns) ==
    LET handler == Resolve(self.variant.name, patterns, defaultPatterns)
    IN  IF handler = NoHandler THEN Throw(MatchMessage(self.variant.name))
        ELSE IF NoArgs(self, h) THEN Invoke(handler, <<>>)
        ELSE Invoke(handler, <<h[self.variant.args][1]>>)

match(self, h, patterns, defaultPatterns) ==
    LET variantName == self.variant.name
        handler     == Resolve(variantName, patterns, defaultPatterns)
    IN  IF handler = NoHandler THEN Throw(MatchMessage(variantName))
        ELSE IF NoArgs(self, h) THEN Invoke(handler, <<>>)
        ELSE Invoke(handler, h[self.variant.args])

---------------------------------------------------------------------------
(* The state machine *)

Called(op, input, result) ==
    [op |-> op, input |-> input, outcome |-> result.outcome,
     value |-> result.value, calls |-> result.calls]

Constructed == thisObj # NoInstance

\* The payload thisObj holds now.
Payload == IF thisObj.variant.args = "undefined" THEN <<>> ELSE heap[thisObj.variant.args]

PatternSets == {Mapping("patterns", ks) : ks \in SUBSET VariantNames}
DefaultSets == {NotGiven} \cup {Mapping("defaultPatterns", ks) : ks \in SUBSET VariantNames}
IsInputs    == VariantNames \cup {"Pending"}

Init ==
    /\ heap \in [Refs -> ArraysUpTo(MaxLen)]
    /\ heap["restArgs"] = <<>>
    /\ thisObj = NoInstance
    /\ callerRefs = {"callerArray"}
    /\ built = [cls |-> "none", key |-> "", payload |-> <<>>]
    /\ aliasWritten = FALSE
    /\ last = Called("none", "none", Return("none"))

\* C.key(...callerArray): the static method found on C runs the closure the
\* decorator made for its target; the rest parameter is a fresh array.
Factory(C, key) ==
    /\ ~Constructed
    /\ Declarer(C, key) # "Enum"
    /\ heap' = [heap EXCEPT !["restArgs"] = heap["callerArray"]]
    /\ thisObj' = variant(Declarer(C, key), key, "restArgs")
    /\ built' = [cls |-> C, key |-> key, payload |-> heap["callerArray"]]
    /\ last' = Called("factory", key, Return("instance"))
    /\ UNCHANGED <<callerRefs, aliasWritten>>

IsCall(name) ==
    /\ Constructed
    /\ last' = Called("is", name, Return(is(thisObj, name)))
    /\ UNCHANGED <<heap, thisObj, callerRefs, built, aliasWritten>>

UnwrapCall ==
    /\ Constructed
    /\ last' = Called("unwrap", "none", unwrap(thisObj, heap))
    /\ UNCHANGED <<heap, thisObj, callerRefs, built, aliasWritten>>

\* The caller keeps what unwrapTuple returned.
UnwrapTupleCall ==
    /\ Constructed
    /\ LET r == unwrapTuple(thisObj, heap)
       IN  /\ last' = Called("unwrapTuple", "none", r)
           /\ callerRefs' = IF r.outcome = "return" THEN callerRefs \cup {r.value}
                            ELSE callerRefs
    /\ UNCHANGED <<heap, thisObj, built, aliasWritten>>

ToStringCall ==
    /\ Constructed
    /\ last' = Called("toString", "none", Return(toString(thisObj, heap)))
    /\ UNCHANGED <<heap, thisObj, callerRefs, built, aliasWritten>>

MatchCall(patterns, defaultPatterns) ==
    /\ Constructed
    /\ last' = Called("match", [patterns |-> patterns, defaultPatterns |-> defaultPatterns],
                      match(thisObj, heap, patterns, defaultPatterns))
    /\ UNCHANGED <<heap, thisObj, callerRefs, built, aliasWritten>>

\* [Symbol('ENUM')](): typeId(this.constructor)
TypeIdHook ==
    /\ Constructed
    /\ last' = Called("typeId", "none", Return(typeId(thisObj.constructor)))
    /\ UNCHANGED <<heap, thisObj, callerRefs, built, aliasWritten>>

\* The caller changes an array it holds a reference to.
Wrote(ref) ==
    /\ aliasWritten' = (aliasWritten \/ (Constructed /\ ref = thisObj.variant.args))
    /\ last' = Called("callerWrite", ref, Return("none"))
    /\ UNCHANGED <<thisObj, callerRefs, built>>

CallerAssign(ref, i, v) ==
    /\ Constructed
    /\ ref \in callerRefs
    /\ i \in 1..Len(heap[ref])
    /\ heap[ref][i] # v
    /\ heap' = [heap EXCEPT ![ref][i] = v]
    /\ Wrote(ref)

CallerPush(ref, v) ==
    /\ Constructed
    /\ ref \in callerRefs
    /\ Len(heap[ref]) < MaxLen
    /\ heap' = [heap EXCEPT ![ref] = Append(@, v)]
    /\ Wrote(ref)

CallerPop(ref) ==
    /\ Constructed
    /\ ref \in callerRefs
    /\ Len(heap[ref]) > 0
    /\ heap' = [heap EXCEPT ![ref] = SubSeq(@, 1, Len(@) - 1)]
    /\ Wrote(ref)

Next ==
    \/ \E C \in ConcreteClasses, key \in VariantNames : Factory(C, key)
    \/ \E name \in IsInputs : IsCall(name)
    \/ UnwrapCall
    \/ UnwrapTupleCall
    \/ ToStringCall
    \/ \E patterns \in PatternSets, defaultPatterns \in DefaultSets :
           MatchCall(patterns, defaultPatterns)
    \/ TypeIdHook
    \/ \E ref \in Refs, i \in 1..MaxLen, v \in Values : CallerAssign(ref, i, v)
    \/ \E ref \in Refs, v \in Values : CallerPush(ref, v)
    \/ \E ref \in Refs : CallerPop(ref)

Spec == Init /\ [][Next]_vars

TypeOK ==
    /\ heap \in [Refs -> ArraysUpTo(MaxLen)]
    /\ callerRefs \subseteq Refs
    /\ aliasWritten \in BOOLEAN

---------------------------------------------------------------------------
(* Properties *)

ActiveName == thisObj.variant.name

Range(s) == {s[i] : i \in 1..Len(s)}

LastPatterns == last.input.patterns.own
LastDefaults == last.input.defaultPatterns.own

C2_ResolutionOrder ==
    last.op = "match" =>
        /\ ActiveName \in LastPatterns =>
              /\ Len(last.calls) = 1
              /\ last.calls[1].handler = [owner |-> "patterns", key |-> ActiveName]
        /\ (ActiveName \notin LastPatterns /\ ActiveName \in LastDefaults) =>
              /\ Len(last.calls) = 1
              /\ last.calls[1].handler = [owner |-> "defaultPatterns", key |-> ActiveName]

\* C3: when the active name is a key of neither patterns nor defaultPatterns
\* (or defaultPatterns is not given), match throws the non-exhaustive-match
\* error, whose message contains the variant name, and invokes no handler.
C3_NonExhaustiveFails ==
    (last.op = "match" /\ ActiveName \notin LastPatterns \cup LastDefaults) =>
        /\ last.outcome = "throw"
        /\ last.value = MatchMessage(ActiveName)
        /\ ActiveName \in Range(last.value)
        /\ last.calls = <<>>

\* C4: the instance's variant name and payload sequence stay the ones the
\* factory was called with, whatever calls are made on the instance and
\* whatever the caller does to the values they returned or to its own array.
C4_Immutable ==
    Constructed =>
        /\ ActiveName = built.key
        /\ Payload = built.payload

\* C5: is(w) answers true exactly when w is the name of the factory that built
\* the instance, for every payload: true for that name, false for every other
\* declared variant name.
C5_IsOwnVariantOnly ==
    last.op = "is" =>
        /\ last.outcome = "return"
        /\ last.value = (last.input = built.key)

C5_Witness ==
    /\ last.op = "is"
    /\ last.input \in VariantNames
    /\ last.input # built.key
    /\ last.value = FALSE
    /\ Len(Payload) = MaxLen

\* C6: unwrap and unwrapTuple throw the empty-payload error exactly when the
\* payload is empty and return otherwise, whatever the variant name.
C6_UnwrapFailsIffEmpty ==
    last.op \in {"unwrap", "unwrapTuple"} =>
        /\ (last.outcome = "throw") <=> (Payload = <<>>)
        /\ (last.outcome = "return") <=> (Payload # <<>>)
        /\ last.outcome = "throw" => last.value = UnwrapMessage

C6_Witness ==
    /\ last.op = "unwrap"
    /\ last.outcome = "return"
    /\ Len(Payload) = 1
    /\ ActiveName = "toString"

RECURSIVE RenderedOwn(_)
RenderedOwn(p) ==
    IF Len(p) = 0 THEN <<>>
    ELSE IF Len(p) = 1 THEN ToString(p[1])
    ELSE RenderedOwn(SubSeq(p, 1, Len(p) - 1)) \o <<", ">> \o ToString(p[Len(p)])

Shown(v) == IF v.type = "undefined" \/ v.type = "null" THEN <<>> ELSE ToString(v)

RECURSIVE RenderedShown(_)
RenderedShown(p) ==
    IF Len(p) = 0 THEN <<>>
    ELSE IF Len(p) = 1 THEN Shown(p[1])
    ELSE RenderedShown(SubSeq(p, 1, Len(p) - 1)) \o <<", ">> \o Shown(p[Len(p)])

HasParentheses(s) == "(" \in Range(s) /\ ")" \in Range(s)

\* C8 as stated: toString is the variant name for an empty payload, else the
\* name followed by the parenthesised payload values, each converted by its
\* own string conversion, joined by ", " in order; parentheses appear exactly
\* when the payload is non-empty.
C8_ToStringOwnConversion ==
    last.op = "toString" =>
        /\ last.outcome = "return"
        /\ last.value = IF Payload = <<>> THEN <<ActiveName>>
                        ELSE <<ActiveName, "(">> \o RenderedOwn(Payload) \o <<")">>
        /\ HasParentheses(last.value) <=> (Payload # <<>>)

\* C8 amended: as stated, except that an undefined or null payload value is
\* rendered as the empty string instead of by its own string conversion.
C8_ToStringJoin ==
    last.op = "toString" =>
        /\ last.outcome = "return"
        /\ last.value = IF Payload = <<>> THEN <<ActiveName>>
                        ELSE <<ActiveName, "(">> \o RenderedShown(Payload) \o <<")">>
        /\ HasParentheses(last.value) <=> (Payload # <<>>)

C8_Witness ==
    /\ last.op = "toString"
    /\ Payload = <<Undef, Num404>>
    /\ last.value = <<"Failed", "(", ", ", "404", ")">>

\* C9: a factory invoked on a concrete class C yields an instance of C, also
\* when C inherits the factory, carrying the factory's variant name and the
\* call's arguments as payload, and its type handle is typeId(C).
C9_FactoryBuildsConcreteType ==
    Constructed =>
        /\ thisObj.constructor = built.cls
        /\ ActiveName = built.key
        /\ last.op = "factory" => Payload = built.payload
        /\ last.op = "typeId" => last.value = typeId(built.cls)

\* C10: the handler match resolves is called with the payload values as its
\* arguments: as many arguments as the payload has elements, in the same
\* order, and none for an empty payload.
C10_HandlerGetsPayloadSpread ==
    (last.op = "match" /\ last.outcome = "return") =>
        /\ Len(last.calls) >= 1
        /\ \A i \in 1..Len(last.calls) :
              /\ Len(last.calls[i].args) = Len(Payload)
              /\ last.calls[i].args = Payload

C10_Witness ==
    /\ last.op = "match"
    /\ last.outcome = "return"
    /\ Payload = <<Num404, Undef>>
    /\ last.calls[1].args = <<Num404, Undef>>

=============================================================================
